---- MODULE Spec2Model ----
(***************************************************************************)
(* Entitlement reconciliation of eyebalance-backend: the webhook handler   *)
(* and the status query of src/server.js over the subscriptions table of   *)
(* src/db.js, with the payment processor as the environment.               *)
(*                                                                         *)
(* JS null/undefined and SQL NULL are Null in text fields and NullTime in  *)
(* integer fields; a non-null integer n is <<n>>.                          *)
(***************************************************************************)
EXTENDS Integers, Sequences, FiniteSets, TLC

Null == "null"
NullTime == << >>

\* ------------------------------------------------------------- bounds
\* Versions a processor-side subscription goes through.
MaxVersions == 2
Devices == {"d1", "d2"}
Subs == {"sub_1", "sub_2"}

\* ------------------------------------------------- the processor's objects
\* sub_1 is bought through /create-checkout-session of server.js for d1
\* (monthly price, 7-day trial, deviceId in the subscription's metadata from
\* birth); sub_2 is a yearly subscription without trial whose checkout session
\* names d2 but whose subscription metadata is empty until the webhook
\* handler writes it. The model follows the lifecycle of sub_1; sub_2 stays
\* at its first version.
SessionDevice(s) == IF s = "sub_1" THEN "d1" ELSE "d2"
SessionPlan(s) == IF s = "sub_1" THEN "monthly" ELSE "yearly"
SubInterval(s) == IF s = "sub_1" THEN "month" ELSE "year"
SubCustomer(s) == IF s = "sub_1" THEN "cus_1" ELSE "cus_2"
\* Seconds since the epoch, kept small enough that the milliseconds fit the
\* integers of the model checker.
SubTrialEnd(s) == IF s = "sub_1" THEN <<1700000>> ELSE NullTime
BirthMeta(s) == IF s = "sub_1" THEN "d1" ELSE Null
FirstStatus(s) == IF s = "sub_1" THEN "trialing" ELSE "active"

Evolving == {"sub_1"}

\* The processor's subscription status moves along these edges.
NextStatuses(st) ==
  CASE st = "trialing" -> {"active", "past_due", "canceled"}
    [] st = "active" -> {"past_due", "canceled"}
    [] st = "past_due" -> {"active", "canceled"}
    [] OTHER -> {}

EventTypes ==
  {"checkout.session.completed", "customer.subscription.created",
   "customer.subscription.updated", "invoice.payment_failed",
   "customer.subscription.deleted", "invoice.paid"}

\* ------------------------------------------------------------- responses
Ack == [code |-> 200, body |-> "{received:true}"]
Reject == [code |-> 400, body |-> "Invalid signature"]
\* res.json(...) of the status route; the object sent is kept apart.
Json == [code |-> 200, body |-> "{plan,status,expiresAt}"]
DefaultStatus == [plan |-> "free", status |-> "inactive", expiresAt |-> NullTime]

VARIABLES
  trialColumn,  \* the table on disk has the column trial INTEGER NOT NULL
  store,        \* subscriptions table: deviceId -> row, for the rows present
  hist,         \* processor: per subscription, the statuses it went through
  meta,         \* processor: per subscription, metadata.deviceId
  inflight,     \* webhook handlers suspended at an await
  last,         \* the last HTTP request that was answered, and how
  delivered     \* the processor's events handed to the webhook so far, where
                \* a specification keeps track of them

vars == <<trialColumn, store, hist, meta, inflight, last, delivered>>

\* ------------------------------------------------------------- the store
Row(plan, status, exp, cust) ==
  [plan |-> plan, status |-> status, expiresAt |-> exp, customerId |-> cust]

\* What one statement did: the table after it, why it threw ("none" when it
\* did not), and the rows it changed.
Done(st, n) == [store |-> st, fault |-> "none", changes |-> n]
Threw(st, why) == [store |-> st, fault |-> why, changes |-> 0]

\* subscription.trial_end ? subscription.trial_end * 1000 : null
ExpiresAt(trial_end) ==
  IF trial_end = NullTime \/ trial_end = <<0>>
  THEN NullTime
  ELSE <<trial_end[1] * 1000>>

\* sub.items.data[0].price.recurring.interval === "year" ? "yearly" : "monthly"
PlanOf(interval) == IF interval = "year" THEN "yearly" ELSE "monthly"

\* Mutant of Upsert: the conflict branch sets plan from excluded.status.
Upsert_ConflictSwapsColumns(st, hasTrial, dev, plan, status, exp, cust) ==
  IF hasTrial \/ plan = Null \/ status = Null
  THEN Threw(st, "constraint")
  ELSE Done([d \in DOMAIN st \cup {dev} |->
               IF d # dev THEN st[d]
               ELSE IF dev \in DOMAIN st THEN Row(status, status, exp, cust)
               ELSE Row(plan, status, exp, cust)], 1)

\* Mutant of Upsert: the conflict branch leaves the status of the row.
Upsert_ConflictKeepsStatus(st, hasTrial, dev, plan, status, exp, cust) ==
  IF hasTrial \/ plan = Null \/ status = Null
  THEN Threw(st, "constraint")
  ELSE Done([d \in DOMAIN st \cup {dev} |->
               IF d # dev THEN st[d]
               ELSE IF dev \in DOMAIN st
                    THEN Row(plan, st[dev].status, exp, cust)
               ELSE Row(plan, status, exp, cust)], 1)

\* INSERT INTO subscriptions (deviceId, plan, status, expiresAt, customerId)
\* ... ON CONFLICT(deviceId) DO UPDATE SET the four columns. The statement
\* names no value for trial: where the table has trial INTEGER NOT NULL (no
\* default) SQLite rejects it before it looks for a conflict, as it rejects a
\* NULL plan or status.
Upsert(st, hasTrial, dev, plan, status, exp, cust) ==
  IF hasTrial \/ plan = Null \/ status = Null
  THEN Threw(st, "constraint")
  ELSE Done([d \in DOMAIN st \cup {dev} |->
               IF d = dev THEN Row(plan, status, exp, cust) ELSE st[d]], 1)

\* Mutant of SetInactive: the statement clears the expiry as well.
SetInactive_ClearsExpiry(st, dev) ==
  IF dev \in DOMAIN st
  THEN Done([st EXCEPT ![dev].status = "inactive",
                       ![dev].expiresAt = NullTime], 1)
  ELSE Done(st, 0)

\* Mutant of SetInactive: a device without a row gets one.
SetInactive_InsertsRow(st, dev) ==
  IF dev \in DOMAIN st
  THEN Done([st EXCEPT ![dev].status = "inactive"], 1)
  ELSE Done([d \in DOMAIN st \cup {dev} |->
               IF d = dev THEN Row("free", "inactive", NullTime, Null)
               ELSE st[d]], 1)

\* UPDATE subscriptions SET status='inactive' WHERE deviceId=?
SetInactive(st, dev) ==
  IF dev \in DOMAIN st
  THEN Done([st EXCEPT ![dev].status = "inactive"], 1)
  ELSE Done(st, 0)

\* Mutant of SoftReset: the UPDATE has no WHERE clause.
SoftReset_NoWhere(st, dev) ==
  Done([d \in DOMAIN st |->
          Row("free", "inactive", NullTime, st[d].customerId)],
       Cardinality(DOMAIN st))

\* Mutant of SoftReset: the row is deleted.
SoftReset_DeletesRow(st, dev) ==
  IF dev \in DOMAIN st
  THEN Done([d \in DOMAIN st \ {dev} |-> st[d]], 1)
  ELSE Done(st, 0)

\* Mutant of SoftReset: the statement clears the customer as well.
SoftReset_ClearsCustomer(st, dev) ==
  IF dev \in DOMAIN st
  THEN Done([st EXCEPT ![dev].plan = "free", ![dev].status = "inactive",
                       ![dev].expiresAt = NullTime,
                       ![dev].customerId = Null], 1)
  ELSE Done(st, 0)

\* UPDATE subscriptions SET plan='free', status='inactive', expiresAt=NULL
\* WHERE deviceId=?
SoftReset(st, dev) ==
  IF dev \in DOMAIN st
  THEN Done([st EXCEPT ![dev].plan = "free", ![dev].status = "inactive",
                       ![dev].expiresAt = NullTime], 1)
  ELSE Done(st, 0)

\* A statement on a store that may fail by itself (disk, lock): io.
Run(st, io, result) == IF io THEN Threw(st, "io") ELSE result

\* ------------------------------------------------- the webhook handler
\* What a stretch of the handler between two awaits did: the table after it,
\* the responses it sent, the fault the outer catch saw, the statements it
\* ran, the rows they changed, and the await it stopped at.
Answer(st, resp, fault, writes, changes) ==
  [store |-> st, resp |-> resp, fault |-> fault, writes |-> writes,
   changes |-> changes, await |-> "none"]
Suspend(st, what) ==
  [store |-> st, resp |-> << >>, fault |-> "none", writes |-> 0,
   changes |-> 0, await |-> what]

\* Mutant of Caught: the fault reaches the framework, which answers 500.
Caught_Escapes(st, why, writes) ==
  Answer(st, <<[code |-> 500, body |-> "Internal Server Error"]>>, why,
         writes, 0)

\* catch (err) { res.json({ received: true }) }
Caught(st, why, writes) == Answer(st, <<Ack>>, why, writes, 0)

\* Mutant of AfterWrite: the response is sent before the statement runs, so
\* when the statement throws the outer catch sends a second one.
AfterWrite_RespondsFirst(w) ==
  IF w.fault = "none"
  THEN Answer(w.store, <<Ack>>, "none", 1, w.changes)
  ELSE Answer(w.store, <<Ack, Ack>>, w.fault, 1, 0)

\* A statement ran: fall through to res.json({ received: true }), or to the
\* outer catch when it threw.
AfterWrite(w) ==
  IF w.fault = "none"
  THEN Answer(w.store, <<Ack>>, "none", 1, w.changes)
  ELSE Caught(w.store, w.fault, 1)

\* constructEvent threw: res.status(400).send("Invalid signature")
BadSignature(st) == Answer(st, <<Reject>>, "signature", 0, 0)

\* Mutant of CheckoutEntry: a row for the device is written before the
\* lookup, to be completed after it.
CheckoutEntry_WritesFirst(st, ev) ==
  IF ev.dev = Null \/ ev.sub = Null
  THEN Answer(st, <<Ack>>, "none", 0, 0)
  ELSE Suspend([d \in DOMAIN st \cup {ev.dev} |->
                  IF d = ev.dev
                  THEN Row(ev.plan, "incomplete", NullTime, Null)
                  ELSE st[d]], "retrieve")

\* if (!deviceId || !session.subscription) return res.json(...)
CheckoutEntry(st, ev) ==
  IF ev.dev = Null \/ ev.sub = Null
  THEN Answer(st, <<Ack>>, "none", 0, 0)
  ELSE Suspend(st, "retrieve")

\* Mutant of SubscriptionUpserted: no return when the deviceId is missing.
SubscriptionUpserted_NoLinkageCheck(st, hasTrial, ev, io) ==
  IF ev.interval = Null THEN Caught(st, "payload", 0)
  ELSE AfterWrite(Run(st, io,
         Upsert(st, hasTrial, ev.dev, PlanOf(ev.interval), ev.status,
                ExpiresAt(ev.trial_end), ev.customer)))

\* customer.subscription.created / customer.subscription.updated
SubscriptionUpserted(st, hasTrial, ev, io) ==
  IF ev.dev = Null THEN Answer(st, <<Ack>>, "none", 0, 0)
  ELSE IF ev.interval = Null THEN Caught(st, "payload", 0)
  ELSE AfterWrite(Run(st, io,
         Upsert(st, hasTrial, ev.dev, PlanOf(ev.interval), ev.status,
                ExpiresAt(ev.trial_end), ev.customer)))

\* invoice.payment_failed, up to the lookup
PaymentFailedEntry(st, ev) ==
  IF ev.sub = Null
  THEN Answer(st, <<Ack>>, "none", 0, 0)
  ELSE Suspend(st, "retrieve")

\* customer.subscription.deleted
SubscriptionDeleted(st, ev, io) ==
  IF ev.dev = Null THEN Answer(st, <<Ack>>, "none", 0, 0)
  ELSE AfterWrite(Run(st, io, SoftReset(st, ev.dev)))

\* The branches on event.type, to the first await or the response.
Dispatch(st, hasTrial, ev, io) ==
  CASE ev.type = "checkout.session.completed" -> CheckoutEntry(st, ev)
    [] ev.type \in {"customer.subscription.created",
                    "customer.subscription.updated"} ->
         SubscriptionUpserted(st, hasTrial, ev, io)
    [] ev.type = "invoice.payment_failed" -> PaymentFailedEntry(st, ev)
    [] ev.type = "customer.subscription.deleted" ->
         SubscriptionDeleted(st, ev, io)
    [] OTHER -> Answer(st, <<Ack>>, "none", 0, 0)

\* Mutant of WebhookEntry: the 400 is sent without return, and the body is
\* handled as an event all the same.
WebhookEntry_NoReturn(st, hasTrial, sigOk, ev, io) ==
  LET r == Dispatch(st, hasTrial, ev, io) IN
    IF sigOk THEN r ELSE [r EXCEPT !.resp = <<Reject>>]

\* The handler from the request to its first await or its response.
WebhookEntry(st, hasTrial, sigOk, ev, io) ==
  IF ~sigOk THEN BadSignature(st) ELSE Dispatch(st, hasTrial, ev, io)

\* checkout.session.completed after both awaits: the upsert from the session
\* metadata and the subscription the processor returned.
CheckoutWrite(st, hasTrial, ev, subscription, io) ==
  AfterWrite(Run(st, io,
    Upsert(st, hasTrial, ev.dev, ev.plan, subscription.status,
           ExpiresAt(subscription.trial_end), subscription.customer)))

\* invoice.payment_failed after the lookup.
PaymentFailedWrite(st, subscription, io) ==
  IF subscription.dev = Null
  THEN Answer(st, <<Ack>>, "none", 0, 0)
  ELSE AfterWrite(Run(st, io, SetInactive(st, subscription.dev)))

\* Mutant of StatusBody: no catch around the read.
StatusBody_Uncaught(st, deviceId, io) ==
  IF io THEN [plan |-> "error", status |-> "error", expiresAt |-> NullTime]
  ELSE IF deviceId \notin DOMAIN st THEN DefaultStatus
  ELSE [plan |-> st[deviceId].plan, status |-> st[deviceId].status,
        expiresAt |-> st[deviceId].expiresAt]

\* GET /subscription-status/:deviceId
StatusBody(st, deviceId, io) ==
  IF io THEN DefaultStatus
  ELSE IF deviceId \notin DOMAIN st THEN DefaultStatus
  ELSE [plan |-> st[deviceId].plan, status |-> st[deviceId].status,
        expiresAt |-> st[deviceId].expiresAt]

\* ------------------------------------------------- events and objects
NoObject ==
  [status |-> Null, trial_end |-> NullTime, customer |-> Null, dev |-> Null]

\* The subscription object of s at its i-th version with metadata.deviceId m.
SubObject(s, i, m) ==
  [status |-> hist[s][i], trial_end |-> SubTrialEnd(s),
   customer |-> SubCustomer(s), dev |-> m]

\* What stripe.subscriptions.retrieve returns now.
Retrieved(s) == SubObject(s, Len(hist[s]), meta[s])

Event(type, s, dev, plan, obj, interval) ==
  [type |-> type, sub |-> s, dev |-> dev, plan |-> plan,
   status |-> obj.status, trial_end |-> obj.trial_end,
   customer |-> obj.customer, interval |-> interval]

\* The metadata.deviceId a snapshot of s may carry: as at birth, or as now.
MetaSeen(s) == {BirthMeta(s), meta[s]}

\* checkout.session.completed: session.metadata is {deviceId, plan} for a
\* session of this backend and empty otherwise; session.subscription is
\* absent for a session that is not a subscription.
CheckoutEvents ==
  UNION {{Event("checkout.session.completed", s, SessionDevice(s),
                 SessionPlan(s), NoObject, Null),
          Event("checkout.session.completed", Null, SessionDevice(s),
                 SessionPlan(s), NoObject, Null),
          Event("checkout.session.completed", s, Null, Null, NoObject, Null)} :
         s \in Subs}

\* Events whose data.object is a snapshot of the subscription.
SnapshotEvents(type, s, versions) ==
  {Event(type, s, m, Null, SubObject(s, i, m), SubInterval(s)) :
     i \in versions, m \in MetaSeen(s)}

\* A subscription object that lacks items (an unexpected event shape).
BareEvents(s) ==
  {Event("customer.subscription.updated", s, m, Null,
         SubObject(s, Len(hist[s]), m), Null) : m \in MetaSeen(s)}

SubscriptionEvents ==
  UNION {SnapshotEvents("customer.subscription.created", s, {1})
         \cup SnapshotEvents("customer.subscription.updated", s,
                             1..Len(hist[s]))
         \cup SnapshotEvents("customer.subscription.deleted", s,
                {i \in 1..Len(hist[s]) : hist[s][i] = "canceled"})
         \cup BareEvents(s) :
         s \in Subs}

InvoiceEvents ==
  {Event("invoice.payment_failed", ref, Null, Null, NoObject, Null) :
     ref \in Subs \cup {Null}}
  \cup {Event("invoice.paid", "sub_1", Null, Null, NoObject, Null)}

Deliverable == CheckoutEvents \cup SubscriptionEvents \cup InvoiceEvents

\* Bodies of requests whose signature does not verify: anything at all, here
\* one well-formed event of each type.
Forged ==
  {Event(t, "sub_1", "d1", "monthly", Retrieved("sub_1"), "month") :
     t \in EventTypes}

\* Whether the statement of the event's branch may fail by itself: only where
\* the branch reaches a statement before any await.
IoChoices(ev) ==
  IF /\ ev.type \in {"customer.subscription.created",
                     "customer.subscription.updated",
                     "customer.subscription.deleted"}
     /\ ev.dev # Null
  THEN BOOLEAN
  ELSE {FALSE}

\* ------------------------------------------------------------- actions
\* The record of an answered request: the route, whether the signature
\* verified, the event type and the device the event resolved to, and what
\* the handler did (r); for the status route, the device asked for and the
\* JSON returned.
Answered(route, sigOk, type, dev, r, calls, deviceId, json) ==
  [route |-> route, sig |-> sigOk, type |-> type, dev |-> dev,
   resp |-> r.resp, fault |-> r.fault, writes |-> r.writes,
   changes |-> r.changes, calls |-> calls, deviceId |-> deviceId,
   json |-> json]

\* db.js opens subscriptions.db and runs CREATE TABLE IF NOT EXISTS: a fresh
\* file gets the table with trial INTEGER NOT NULL; a file that already holds
\* a subscriptions table keeps it, here one with the five columns the
\* statements of server.js name. No row is there yet.
Init ==
  /\ trialColumn \in BOOLEAN
  /\ store = << >>
  /\ hist = [s \in Subs |-> <<FirstStatus(s)>>]
  /\ meta = [s \in Subs |-> BirthMeta(s)]
  /\ inflight = {}
  /\ delivered = {}
  /\ last = [route |-> "none", sig |-> FALSE, type |-> Null, dev |-> Null,
             resp |-> << >>, fault |-> "none", writes |-> 0, changes |-> 0,
             calls |-> 0, deviceId |-> Null, json |-> DefaultStatus]

FreeIds(ids) == ids \ {h.id : h \in inflight}

\* POST /webhook arrives: the handler runs to its first await or its response.
\* ids are the handlers that may be suspended at the same time; track is
\* what the delivery adds to delivered.
Deliver(sigOk, ev, io, ids, track) ==
  LET r == WebhookEntry(store, trialColumn, sigOk, ev, io) IN
    /\ delivered' = delivered \cup track
    /\ IF r.await = "none"
       THEN /\ store' = r.store
            /\ last' = Answered("webhook", sigOk,
                                IF sigOk THEN ev.type ELSE Null,
                                IF sigOk THEN ev.dev ELSE Null, r, 0, Null,
                                DefaultStatus)
            /\ UNCHANGED <<trialColumn, hist, meta, inflight>>
       ELSE /\ FreeIds(ids) # {}
            /\ inflight' = inflight \cup
                 {[id |-> CHOOSE i \in FreeIds(ids) :
                            \A j \in FreeIds(ids) : i <= j,
                   ev |-> ev, pc |-> r.await, subscription |-> NoObject]}
            /\ store' = r.store
            /\ UNCHANGED <<trialColumn, hist, meta, last>>

\* await stripe.subscriptions.retrieve(...) returns.
RetrieveReturns(h, io) ==
  /\ h \in inflight /\ h.pc = "retrieve"
  /\ IF h.ev.type = "checkout.session.completed"
     THEN /\ ~io
          /\ inflight' = (inflight \ {h}) \cup
               {[h EXCEPT !.pc = "update",
                          !.subscription = Retrieved(h.ev.sub)]}
          /\ UNCHANGED <<trialColumn, delivered, store, hist, meta, last>>
     ELSE LET r == PaymentFailedWrite(store, Retrieved(h.ev.sub), io) IN
            /\ store' = r.store
            /\ inflight' = inflight \ {h}
            /\ last' = Answered("webhook", TRUE, h.ev.type,
                                Retrieved(h.ev.sub).dev, r, 1, Null,
                                DefaultStatus)
            /\ UNCHANGED <<trialColumn, delivered, hist, meta>>

\* await stripe.subscriptions.update(..., {metadata: {deviceId}}) returns.
UpdateReturns(h, io) ==
  /\ h \in inflight /\ h.pc = "update"
  /\ LET r == CheckoutWrite(store, trialColumn, h.ev, h.subscription, io) IN
       /\ store' = r.store
       /\ meta' = [meta EXCEPT ![h.ev.sub] = h.ev.dev]
       /\ inflight' = inflight \ {h}
       /\ last' = Answered("webhook", TRUE, h.ev.type, h.ev.dev, r, 2, Null,
                           DefaultStatus)
       /\ UNCHANGED <<trialColumn, delivered, hist>>

\* A processor call throws: the outer catch answers.
CallThrows(h) ==
  /\ h \in inflight
  /\ inflight' = inflight \ {h}
  /\ last' = Answered("webhook", TRUE, h.ev.type,
                      IF h.ev.type = "checkout.session.completed"
                      THEN h.ev.dev ELSE Null,
                      Caught(store, h.pc, 0),
                      IF h.pc = "retrieve" THEN 1 ELSE 2, Null, DefaultStatus)
  /\ UNCHANGED <<trialColumn, delivered, store, hist, meta>>

\* GET /subscription-status/:deviceId
StatusQuery(deviceId, io) ==
  /\ last' = Answered("status", FALSE, Null, Null,
                      Answer(store, <<Json>>, IF io THEN "io" ELSE "none", 0, 0),
                      0, deviceId, StatusBody(store, deviceId, io))
  /\ UNCHANGED <<trialColumn, delivered, store, hist, meta, inflight>>

\* The processor moves a subscription to its next version.
ProcessorAdvance(s, status) ==
  /\ Len(hist[s]) < MaxVersions
  /\ status \in NextStatuses(hist[s][Len(hist[s])])
  /\ hist' = [hist EXCEPT ![s] = Append(@, status)]
  /\ UNCHANGED <<trialColumn, delivered, store, meta, inflight, last>>

\* One webhook handler at a time.
Serial == {1}

Next ==
  \/ \E ev \in Forged : Deliver(FALSE, ev, FALSE, Serial, {})
  \/ \E ev \in Deliverable : \E io \in IoChoices(ev) :
       Deliver(TRUE, ev, io, Serial, {})
  \/ \E h \in inflight, io \in BOOLEAN : RetrieveReturns(h, io)
  \/ \E h \in inflight, io \in BOOLEAN : UpdateReturns(h, io)
  \/ \E h \in inflight : CallThrows(h)
  \/ \E d \in Devices, io \in BOOLEAN : StatusQuery(d, io)
  \/ \E s \in Evolving, status \in {"active", "past_due", "canceled"} :
       ProcessorAdvance(s, status)

Spec == Init /\ [][Next]_vars

\* ------------------------------------------- one subscription, followed
\* The lifecycle events the processor has emitted for sub_1 and its device, by
\* type and version: checkout completed and subscription created at birth,
\* then for each later version subscription updated, or subscription deleted
\* when it is the cancellation, and invoice payment failed with a version
\* that is past due.
EmittedIds ==
  {<<"checkout.session.completed", 1>>, <<"customer.subscription.created", 1>>}
  \cup {<<IF hist["sub_1"][i] = "canceled"
          THEN "customer.subscription.deleted"
          ELSE "customer.subscription.updated", i>> :
          i \in 2..Len(hist["sub_1"])}
  \cup {<<"invoice.payment_failed", i>> :
          i \in {j \in 2..Len(hist["sub_1"]) : hist["sub_1"][j] = "past_due"}}

EventOf(id) ==
  CASE id[1] = "checkout.session.completed" ->
         Event(id[1], "sub_1", "d1", SessionPlan("sub_1"), NoObject, Null)
    [] id[1] = "invoice.payment_failed" ->
         Event(id[1], "sub_1", Null, Null, NoObject, Null)
    [] OTHER ->
         Event(id[1], "sub_1", "d1", Null, SubObject("sub_1", id[2], "d1"),
               SubInterval("sub_1"))

\* The table takes the handler's INSERT, no call and no statement fails, and
\* only the emitted events of sub_1 arrive: in any order, any number of times.
InitFollowed == Init /\ ~trialColumn

NextFollowed ==
  \/ \E id \in EmittedIds : Deliver(TRUE, EventOf(id), FALSE, Serial, {id})
  \/ \E h \in inflight : RetrieveReturns(h, FALSE)
  \/ \E h \in inflight : UpdateReturns(h, FALSE)
  \/ \E status \in {"active", "past_due", "canceled"} :
       ProcessorAdvance("sub_1", status)

SpecFollowed == InitFollowed /\ [][NextFollowed]_vars

\* -------------------------------------------------- two handlers at once
\* Node runs one handler until it awaits; a second request may then be taken
\* up, so two handlers can be suspended at the same time.
Both == {1, 2}

\* Verified deliveries about sub_1 and its device d1, every processor call
\* returning or throwing, no statement failing by itself.
NextConcurrent ==
  \/ \E ev \in {e \in Deliverable : e.sub = "sub_1"} :
       Deliver(TRUE, ev, FALSE, Both, {})
  \/ \E h \in inflight : RetrieveReturns(h, FALSE)
  \/ \E h \in inflight : UpdateReturns(h, FALSE)
  \/ \E h \in inflight : CallThrows(h)
  \/ \E status \in {"active", "past_due", "canceled"} :
       ProcessorAdvance("sub_1", status)

SpecConcurrent == Init /\ [][NextConcurrent]_vars

\* The whole handler for a verified event with nothing else running between
\* its awaits and both processor calls returning; subscription is what the
\* lookup returns.
HandleSerially(st, hasTrial, ev, subscription, io) ==
  LET r == WebhookEntry(st, hasTrial, TRUE, ev, io) IN
    IF r.await = "none" THEN r
    ELSE IF ev.type = "checkout.session.completed"
         THEN CheckoutWrite(st, hasTrial, ev, subscription, io)
         ELSE PaymentFailedWrite(st, subscription, io)

\* ------------------------------------------------------------- claims
WebhookAnswered == last.route = "webhook"

\* One request was answered in this step.
AnsweredNow == last' # last \/ store' # store

\* The expiry the specification states: trial_end * 1000, or null.
StatedExpiry(trial_end) ==
  IF trial_end = NullTime THEN NullTime ELSE <<trial_end[1] * 1000>>

\* The status and expiry a row has when it agrees with subscription s as the
\* processor has it now: a canceled subscription is an inactive entitlement
\* without expiry, and a past-due one may also have been set inactive by the
\* failed payment.
AgreesWithProcessor(row, s) ==
  LET now == hist[s][Len(hist[s])] IN
    CASE now = "canceled" ->
           row.status = "inactive" /\ row.expiresAt = NullTime
      [] now = "past_due" ->
           /\ row.status \in {"past_due", "inactive"}
           /\ row.expiresAt = StatedExpiry(SubTrialEnd(s))
      [] OTHER ->
           /\ row.status = now
           /\ row.expiresAt = StatedExpiry(SubTrialEnd(s))

\* C1: once every lifecycle event the processor emitted for the device's
\* subscription has been delivered at least once (in any order, with any
\* duplicates) and handled, the device's row has the status and expiresAt of
\* the processor's latest version of the subscription.
C1_ConvergesToLatest ==
  (inflight = {} /\ EmittedIds \subseteq delivered) =>
    /\ "d1" \in DOMAIN store
    /\ AgreesWithProcessor(store["d1"], "sub_1")

\* C2: every webhook request whose signature verified is answered 200 with
\* {received: true}, whatever failed afterwards (processor lookup or update,
\* store write, payload shape, linkage).
C2_VerifiedAlwaysAcknowledged ==
  (WebhookAnswered /\ last.sig) => last.resp = <<Ack>>

\* A checkout event whose metadata update threw has been acknowledged.
C2_Witness ==
  /\ WebhookAnswered /\ last.sig
  /\ last.fault = "update"
  /\ last.resp = <<Ack>>

\* C3: a request whose signature does not verify is answered 400 and causes
\* no store write and no processor call, whatever the store holds.
C3_RejectedLeavesNoTrace ==
  [][(last' # last /\ last'.route = "webhook" /\ ~last'.sig) =>
       /\ last'.resp = <<Reject>>
       /\ last'.writes = 0 /\ last'.calls = 0
       /\ UNCHANGED <<store, meta, inflight>>]_vars

\* A request was rejected while the store held a row.
C3_Witness ==
  /\ WebhookAnswered /\ ~last.sig
  /\ last.resp = <<Reject>>
  /\ DOMAIN store # {}

\* C4: after a verified checkout-completed event with a deviceId and a
\* subscription reference, lookup and metadata update both succeeding (and the
\* store not failing by itself), the store holds for that deviceId the row
\* {session plan, retrieved status, trial_end * 1000 or null, the
\* subscription's customer}, whether or not a row existed before.
C4_CheckoutWritesRecord ==
  [][\A h \in inflight :
       (/\ h.pc = "update" /\ h \notin inflight'
        /\ last'.fault \notin {"update", "io"}) =>
         /\ h.ev.dev \in DOMAIN store'
         /\ store'[h.ev.dev] =
              Row(h.ev.plan, h.subscription.status,
                  StatedExpiry(h.subscription.trial_end),
                  h.subscription.customer)]_vars

\* What the lookup for the event's subscription returns now.
LookedUp(ev) == IF ev.sub \in Subs THEN Retrieved(ev.sub) ELSE NoObject

Once(st, ev) ==
  HandleSerially(st, trialColumn, ev, LookedUp(ev), FALSE).store

\* C5: handling the identical event twice in succession (the processor's state
\* the same for both) leaves the store as handling it once does, for every
\* event the processor can deliver and every reachable store.
C5_ReapplyIsNoOp ==
  \A ev \in Deliverable : Once(Once(store, ev), ev) = Once(store, ev)

\* A subscription-updated event has just written a row, handling it again
\* now changes nothing, and some other event would still change the store.
C5_Witness ==
  /\ WebhookAnswered /\ last.type = "customer.subscription.updated"
  /\ last.changes = 1 /\ last.dev \in DOMAIN store
  /\ \E ev \in Deliverable :
       /\ ev.type = last.type /\ ev.dev = last.dev
       /\ ev.status = store[last.dev].status
       /\ Once(store, ev) = store
  /\ \E ev \in Deliverable : Once(store, ev) # store

\* The two events of C6 for subscription s, both carrying the device.
CheckoutOf(s) ==
  Event("checkout.session.completed", s, SessionDevice(s), SessionPlan(s),
        NoObject, Null)
CreatedOf(s) ==
  Event("customer.subscription.created", s, SessionDevice(s), Null,
        SubObject(s, 1, SessionDevice(s)), SubInterval(s))

\* C6: checkout completed and subscription created for the same subscription
\* and device, linkage resolvable for both, leave the same final store in
\* either order from the same starting store.
C6_CheckoutCreatedCommute ==
  \A s \in Subs :
    Once(Once(store, CheckoutOf(s)), CreatedOf(s)) =
      Once(Once(store, CreatedOf(s)), CheckoutOf(s))

\* C7: a subscription-deleted event that resolves to a device (its UPDATE not
\* failing) leaves that device's row present with plan=free, status=inactive,
\* expiresAt=null and the customerId it had, whatever the row held; a device
\* without a row still has none.
C7_DeletedSoftResets ==
  [][(/\ AnsweredNow /\ last'.type = "customer.subscription.deleted"
      /\ last'.dev # Null /\ last'.fault = "none") =>
       LET d == last'.dev IN
         IF d \in DOMAIN store
         THEN /\ DOMAIN store' = DOMAIN store
              /\ store'[d] = Row("free", "inactive", NullTime,
                                 store[d].customerId)
         ELSE store' = store]_vars

\* A deleted event has reset a row that keeps its customer.
C7_Witness ==
  /\ WebhookAnswered /\ last.type = "customer.subscription.deleted"
  /\ last.dev = "d1" /\ last.changes = 1
  /\ store["d1"] = Row("free", "inactive", NullTime, "cus_1")

\* C8: an invoice-payment-failed event whose subscription resolves to a device
\* with a row (its UPDATE not failing) sets that row's status to inactive and
\* changes nothing else in it.
C8_PaymentFailedOnlyStatus ==
  [][(/\ AnsweredNow /\ last'.type = "invoice.payment_failed"
      /\ last'.dev \in DOMAIN store /\ last'.fault = "none") =>
       /\ DOMAIN store' = DOMAIN store
       /\ store'[last'.dev] =
            Row(store[last'.dev].plan, "inactive",
                store[last'.dev].expiresAt, store[last'.dev].customerId)]_vars

\* The example of the specification: {monthly, trialing, expiry, cus_1} has
\* become {monthly, inactive, expiry, cus_1}.
C8_Witness ==
  /\ WebhookAnswered /\ last.type = "invoice.payment_failed"
  /\ last.dev = "d1" /\ last.changes = 1
  /\ hist["sub_1"] = <<"trialing">>
  /\ store["d1"] = Row("monthly", "inactive", <<1700000000>>, "cus_1")

Recognised == EventTypes \ {"invoice.paid"}

\* C9: a verified event of a recognised type whose linkage metadata has no
\* device identifier leaves the store as it was and is answered
\* {received: true}.
C9_UnlinkedIsNoOp ==
  [][(/\ AnsweredNow /\ last'.route = "webhook" /\ last'.sig
      /\ last'.type \in Recognised /\ last'.dev = Null) =>
       /\ store' = store
       /\ last'.resp = <<Ack>>]_vars

\* A payment-failed event whose subscription carries no deviceId was looked
\* up and acknowledged while the store held a row.
C9_Witness ==
  /\ WebhookAnswered /\ last.sig
  /\ last.type = "invoice.payment_failed" /\ last.dev = Null
  /\ last.calls = 1 /\ last.fault = "none"
  /\ last.resp = <<Ack>> /\ DOMAIN store # {}

\* C10: the status query answers 200 with the default
\* {free, inactive, null} for a device without a row and when the read
\* fails, with the stored plan, status and expiresAt otherwise, and leaves the
\* store alone.
C10_StatusQuery ==
  [][(AnsweredNow /\ last'.route = "status") =>
       /\ store' = store
       /\ last'.resp = <<Json>>
       /\ last'.json =
            IF last'.fault = "io" \/ last'.deviceId \notin DOMAIN store
            THEN [plan |-> "free", status |-> "inactive",
                  expiresAt |-> NullTime]
            ELSE [plan |-> store[last'.deviceId].plan,
                  status |-> store[last'.deviceId].status,
                  expiresAt |-> store[last'.deviceId].expiresAt]]_vars

\* A status query returned a stored trialing entitlement with its expiry.
C10_Witness ==
  /\ last.route = "status" /\ last.deviceId = "d1" /\ "d1" \in DOMAIN store
  /\ last.json = [plan |-> "monthly", status |-> "trialing",
                  expiresAt |-> <<1700000000>>]

\* C11: customerId is sticky: a row that has a customerId keeps a customerId
\* (and stays in the table) through every later step, whatever event is
\* handled: deleted, payment failed, or an upsert from checkout, created or
\* updated.
C11_CustomerIdSticky ==
  [][\A d \in DOMAIN store :
       store[d].customerId # Null =>
         /\ d \in DOMAIN store'
         /\ store'[d].customerId # Null]_vars

\* A row that was soft-reset by a cancellation has then taken a failed
\* payment, and still names its customer.
C11_Witness ==
  /\ WebhookAnswered /\ last.type = "invoice.payment_failed"
  /\ last.dev = "d1" /\ last.changes = 1
  /\ store["d1"] = Row("free", "inactive", NullTime, "cus_1")

\* C12: a verified subscription-created or subscription-updated event whose
\* metadata carries a deviceId (the payload having its items and the statement
\* not failing by itself) leaves for that device the row {yearly if the
\* interval is "year" and monthly otherwise, the event's status,
\* trial_end * 1000 or null, the event's customer}, the same for both types.
C12_UpsertFromSubscription ==
  [][\A ev \in Deliverable :
       (/\ ev.type \in {"customer.subscription.created",
                         "customer.subscription.updated"}
        /\ ev.dev # Null /\ ev.interval # Null
        /\ Deliver(TRUE, ev, FALSE, Serial, {})) =>
         /\ ev.dev \in DOMAIN store'
         /\ store'[ev.dev] =
              Row(IF ev.interval = "year" THEN "yearly" ELSE "monthly",
                  ev.status, StatedExpiry(ev.trial_end), ev.customer)]_vars

\* C13: a device's row is created only by a checkout-completed event: a step
\* in which a device without a row gets one is the completion of a
\* checkout-completed event for that device.
C13_CreatedOnlyByCheckout ==
  [][\A d \in Devices :
       (d \notin DOMAIN store /\ d \in DOMAIN store') =>
         /\ last'.type = "checkout.session.completed"
         /\ last'.dev = d]_vars

\* C13 as the handler has it: a device's row is created only by an upsert,
\* that of a checkout-completed event or of a subscription-created or
\* subscription-updated event for that device; subscription deleted and
\* invoice payment failed never create one.
C13_CreatedOnlyByUpsert ==
  [][\A d \in Devices :
       (d \notin DOMAIN store /\ d \in DOMAIN store') =>
         /\ last'.type \in {"checkout.session.completed",
                            "customer.subscription.created",
                            "customer.subscription.updated"}
         /\ last'.dev = d /\ last'.fault = "none"
         /\ last'.changes = 1]_vars

\* The only row is that of d1, written by a subscription-created event while
\* the metadata of sub_2 is still as at birth.
C13_Witness ==
  /\ WebhookAnswered /\ last.type = "customer.subscription.created"
  /\ last.dev = "d1" /\ last.changes = 1
  /\ DOMAIN store = {"d1"}
  /\ store["d1"] = Row("monthly", "trialing", <<1700000000>>, "cus_1")
  /\ meta["sub_2"] = Null

\* What the state records of an earlier metadata update for subscription s
\* that went through: the metadata differs from what s was born with, or the
\* last request answered was a checkout-completed event for the device of s
\* whose update returned.
UpdateWentThrough(s) ==
  \/ meta[s] # BirthMeta(s)
  \/ /\ WebhookAnswered /\ last.sig
     /\ last.type = "checkout.session.completed"
     /\ last.dev = SessionDevice(s)
     /\ last.calls = 2 /\ last.fault # "update"

\* C14: the processor update that writes metadata {deviceId} onto a
\* subscription is issued once: no handler issues it (moves from the lookup
\* to the update) for a subscription for which an earlier update went
\* through, redelivered checkout-completed events included.
C14_LinkageWrittenOnce ==
  [][\A h \in inflight' :
       (h.pc = "update" /\ h \notin inflight) =>
         ~UpdateWentThrough(h.ev.sub)]_vars

\* C15: every row of the store has status in {inactive, trialing, active,
\* past_due} and plan in {free, monthly, yearly}, whatever status the
\* processor reports and whatever plan the session metadata carries.
C15_Vocabulary ==
  \A d \in DOMAIN store :
    /\ store[d].status \in {"inactive", "trialing", "active", "past_due"}
    /\ store[d].plan \in {"free", "monthly", "yearly"}

\* C16: in every reachable store a row whose status is inactive has
\* expiresAt null, after any sequence of webhook events, invoice payment
\* failed on a trialing row included.
C16_InactiveHasNoExpiry ==
  \A d \in DOMAIN store :
    store[d].status = "inactive" => store[d].expiresAt = NullTime

\* C17: with two webhook handlers interleaving at their awaits, each handler
\* runs at most one statement; the store changes only in the step in which
\* the writing handler also answers (after all its awaits: no handler is
\* suspended again after a write); and the row an upsert leaves has its
\* plan, status, expiresAt and customerId all from the one event of the
\* handler that wrote it (for checkout, its session and the subscription it
\* looked up), never part from one handler and part from the other.
C17_NoMixedFields ==
  [][/\ (AnsweredNow /\ last'.route = "webhook") => last'.writes <= 1
     /\ store' # store =>
          /\ last'.writes = 1 /\ last'.changes = 1
          /\ inflight' \subseteq inflight
     /\ \A h \in inflight \ inflight' :
          (h.pc = "update" /\ last'.changes = 1) =>
            store'[h.ev.dev] =
              Row(h.ev.plan, h.subscription.status,
                  StatedExpiry(h.subscription.trial_end),
                  h.subscription.customer)
     /\ \A ev \in Deliverable :
          (/\ ev.type \in {"customer.subscription.created",
                            "customer.subscription.updated"}
           /\ Deliver(TRUE, ev, FALSE, Both, {})
           /\ last'.changes = 1) =>
            store'[ev.dev] =
              Row(IF ev.interval = "year" THEN "yearly" ELSE "monthly",
                  ev.status, StatedExpiry(ev.trial_end), ev.customer)]_vars

\* Two checkout handlers for d1 overlapped: one looked the subscription up
\* while it was trialing and is still waiting for its update; the other
\* looked it up after it became active and has written its row.
C17_Witness ==
  /\ WebhookAnswered /\ last.type = "checkout.session.completed"
  /\ last.dev = "d1" /\ last.changes = 1
  /\ hist["sub_1"] = <<"trialing", "active">>
  /\ store["d1"] = Row("monthly", "active", <<1700000000>>, "cus_1")
  /\ \E h \in inflight :
       /\ h.pc = "update" /\ h.ev.dev = "d1"
       /\ h.subscription.status = "trialing"

\* C18: when subscriptions.retrieve or subscriptions.update throws in a
\* checkout-completed handler, or subscriptions.retrieve in a payment-failed
\* handler, the handler ends there: the store and the processor's metadata
\* are as they were, no statement ran, the event is acknowledged, and no
\* further call or handler is started for it; and no handler has changed the
\* store by the time it suspends at a processor call, so nothing partial is
\* left behind.
C18_FailsClosed ==
  [][/\ \A h \in inflight :
          (/\ h.id \notin {g.id : g \in inflight'}
           /\ last'.fault \in {"retrieve", "update"}) =>
            /\ store' = store /\ meta' = meta
            /\ last'.resp = <<Ack>>
            /\ last'.fault = h.pc
            /\ last'.writes = 0 /\ last'.changes = 0
            /\ last'.calls = (IF h.pc = "retrieve" THEN 1 ELSE 2)
            /\ inflight' = inflight \ {h}
     /\ (\E g \in inflight' : g \notin inflight) => store' = store]_vars

\* The lookup of a payment-failed event threw while the store held the
\* trialing row of d1: the row is as it was and the event was acknowledged.
C18_Witness ==
  /\ WebhookAnswered /\ last.type = "invoice.payment_failed"
  /\ last.fault = "retrieve" /\ last.calls = 1
  /\ last.resp = <<Ack>> /\ inflight = {}
  /\ "d1" \in DOMAIN store
  /\ store["d1"] = Row("monthly", "trialing", <<1700000000>>, "cus_1")

\* The rows of every device but d are the same in both stores.
SameButFor(d, before, after) ==
  \A e \in Devices \ {d} :
    /\ e \in DOMAIN before <=> e \in DOMAIN after
    /\ e \in DOMAIN before => after[e] = before[e]

\* C19: a step that changes the store is the handling of an event of a
\* recognised type that resolves to a device d, and it leaves the row (or
\* the absence of a row) of every other device as it was; a verified event
\* of an unrecognised type changes no row. The store holds one row per
\* deviceId (the primary key of db.js): rows are only ever found under a
\* device identifier.
C19_FrameAcrossDevices ==
  [][/\ store' # store =>
          /\ last'.route = "webhook" /\ last'.sig
          /\ last'.type \in Recognised
          /\ last'.dev \in Devices
          /\ SameButFor(last'.dev, store, store')
     /\ (/\ AnsweredNow /\ last'.route = "webhook" /\ last'.sig
         /\ last'.type \notin Recognised) => store' = store
     /\ DOMAIN store' \subseteq Devices]_vars

\* A subscription-updated event for d2 has just written the row of d2 while
\* d1 holds its own, different row.
C19_Witness ==
  /\ WebhookAnswered /\ last.type = "customer.subscription.updated"
  /\ last.dev = "d2" /\ last.changes = 1
  /\ DOMAIN store = {"d1", "d2"}
  /\ store["d1"] = Row("monthly", "trialing", <<1700000000>>, "cus_1")
  /\ store["d2"] = Row("yearly", "active", NullTime, "cus_2")

\* C20: every webhook request that is answered got exactly one response, on
\* every path (signature failure, the early returns for missing linkage, the
\* fall-through, the outer catch); a handler that answered because the
\* signature failed or the linkage was missing ran no statement, before or
\* after; and the store changes only in a step in which the handler also
\* answers and ends, so no statement runs once the response is out.
C20_ExactlyOneResponse ==
  [][/\ (AnsweredNow /\ last'.route = "webhook") =>
          /\ Len(last'.resp) = 1
          /\ (~last'.sig \/ last'.dev = Null) =>
               (last'.writes = 0 /\ store' = store)
     /\ store' # store =>
          /\ Len(last'.resp) = 1
          /\ inflight' \subseteq inflight]_vars

\* The outer catch answered, once, after the statement of a
\* subscription-updated event failed by itself on a store that holds a row.
C20_Witness ==
  /\ WebhookAnswered /\ last.type = "customer.subscription.updated"
  /\ last.fault = "io" /\ last.writes = 1 /\ last.changes = 0
  /\ last.resp = <<Ack>> /\ DOMAIN store # {}

====
